---- MODULE Spec2Model ----
(***************************************************************************)
(* Model of the setup_config management command of BuffaLogs               *)
(* (impossible_travel/management/commands/setup_config.py): the manual     *)
(* update path (--override / --remove / --append) and the                  *)
(* --set-default-values path of Command.handle, together with the          *)
(* validators of impossible_travel/validators.py that the Config fields    *)
(* register.                                                               *)
(***************************************************************************)
EXTENDS Integers, Sequences, FiniteSets, TLC

(***************************************************************************)
(* Python values.  Every value is a record of one shape:                   *)
(*   k : the Python type ("none", "str", "int", "bool", "float", "list",   *)
(*       "dict", "notprovided"),                                           *)
(*   t : the text of a str or the repr of a float, n : the number of an    *)
(*       int or a bool, or the identity of a NaN object,                   *)
(*   e : the elements of a list (scalars).                                 *)
(***************************************************************************)
Str(s) == [k |-> "str", t |-> s, n |-> 0, e |-> <<>>]

IntV(x) == [k |-> "int", t |-> "", n |-> x, e |-> <<>>]

BoolV(b) == [k |-> "bool", t |-> "", n |-> IF b THEN 1 ELSE 0, e |-> <<>>]

\* A float, named by its repr.  Every float("nan") is an object of its own
\* that equals nothing, itself included, so a NaN carries the identity of
\* its object in n; the other floats carry 0.
Float(r, id) == [k |-> "float", t |-> r, n |-> id, e |-> <<>>]

IsNaN(v) == v.k = "float" /\ v.t = "nan"

None == [k |-> "none", t |-> "", n |-> 0, e |-> <<>>]

EmptyDict == [k |-> "dict", t |-> "", n |-> 0, e |-> <<>>]

\* An instance of django.db.models.fields.NOT_PROVIDED: what
\* field_model.default() returns for a field declared without a default.
NotProvidedInstance == [k |-> "notprovided", t |-> "", n |-> 0, e |-> <<>>]

ListV(s) == [k |-> "list", t |-> "", n |-> 0, e |-> s]

isinstance_list(v) == v.k = "list"

isinstance_str(v) == v.k = "str"

\* Python's == on scalars: bool is a subclass of int, so True == 1; a str
\* equals a str of the same text; None equals None only; a float equals a
\* float of the same repr unless it is a NaN (the floats of the model other
\* than NaN are not whole numbers, so they equal no int or bool).
PyEqScalar(a, b) ==
    IF a.k \in {"int", "bool"} /\ b.k \in {"int", "bool"}
    THEN a.n = b.n
    ELSE IF a.k = "float" /\ b.k = "float"
    THEN a.t = b.t /\ ~IsNaN(a)
    ELSE a.k = b.k /\ a.k \in {"str", "none"} /\ a.t = b.t

\* Python's "a is b", where it differs from ==: the same NaN object.
SameObject(a, b) == IsNaN(a) /\ a = b

\* Python's == on the values of the model (lists compare element by element,
\* by identity first and then by ==; an empty dict equals an empty dict).
PyEq(a, b) ==
    IF a.k = "list" /\ b.k = "list"
    THEN /\ Len(a.e) = Len(b.e)
         /\ \A j \in 1..Len(a.e) :
               SameObject(a.e[j], b.e[j]) \/ PyEqScalar(a.e[j], b.e[j])
    ELSE IF a.k = "dict" /\ b.k = "dict" THEN TRUE
    ELSE PyEqScalar(a, b)

\* Python's "x in seq" for a list of scalars: x is an element or equals one.
PyIn(x, s) == \E j \in 1..Len(s) : SameObject(x, s[j]) \/ PyEq(x, s[j])

\* Python's truth value of an object.
Truthy(v) ==
    CASE v.k = "none" -> FALSE
      [] v.k = "str" -> v.t # ""
      [] v.k \in {"int", "bool"} -> v.n # 0
      [] v.k = "list" -> v.e # <<>>
      [] v.k = "dict" -> FALSE
      [] OTHER -> TRUE

(***************************************************************************)
(* validators.py.  A validator is modelled by the predicate "it returns    *)
(* without raising ValidationError".                                       *)
(***************************************************************************)
\* pycountry.countries.get(alpha_2=...) / get(name=...) finds the country.
KnownCountries == {"IT", "FR"}

validate_countries_names(values) ==
    /\ isinstance_list(values)
    /\ \A j \in 1..Len(values.e) :
          /\ isinstance_str(values.e[j])
          /\ values.e[j].t \in KnownCountries

validate_string_or_regex(value) == isinstance_str(value)

RunValidator(name, value) ==
    CASE name = "validate_countries_names" -> validate_countries_names(value)
      [] name = "validate_string_or_regex" -> validate_string_or_regex(value)

(***************************************************************************)
(* The Config model's editable fields (fields_info of Command.handle):     *)
(* for each field whether it is an ArrayField, its validators in order,    *)
(* and its default (NOT_PROVIDED when the field declares none).            *)
(***************************************************************************)
fields_info ==
    [allowed_countries |->
        [is_list |-> TRUE, validators |-> <<"validate_countries_names">>,
         has_default |-> TRUE, default |-> ListV(<<>>)],
     filtered_alerts_types |->
        [is_list |-> TRUE, validators |-> <<>>,
         has_default |-> TRUE, default |-> ListV(<<>>)],
     alert_is_vip_only |->
        [is_list |-> FALSE, validators |-> <<>>,
         has_default |-> TRUE, default |-> BoolV(FALSE)],
     field_without_default |->
        [is_list |-> FALSE, validators |-> <<"validate_string_or_regex">>,
         has_default |-> FALSE, default |-> NotProvidedInstance]]

FieldNames == DOMAIN fields_info

\* The order in which fields_info.items() yields the fields.
FieldOrder ==
    <<"allowed_countries", "filtered_alerts_types", "alert_is_vip_only",
      "field_without_default">>

\* [choice[0] for choice in AlertDetectionType.choices]
valid_choices == <<Str("New Device"), Str("New Country")>>

(***************************************************************************)
(* Command-line items.  An item is the text after -o / -r / -a: eq says    *)
(* whether it contains "=", field is the text before the first "=",        *)
(* bracket whether the value is wrapped in [ ], toks the comma-separated   *)
(* tokens of the value.                                                    *)
(***************************************************************************)
Item(f, b, ts) == [eq |-> TRUE, field |-> f, bracket |-> b, toks |-> ts]

BadItem == [eq |-> FALSE, field |-> "badtoken", bracket |-> FALSE, toks |-> <<>>]

Items ==
    { Item("allowed_countries", TRUE, <<"FR", "IT">>),
      Item("allowed_countries", TRUE, <<"FR", "FR">>),
      Item("allowed_countries", FALSE, <<"IT">>),
      Item("allowed_countries", TRUE, <<"New Device">>),
      Item("filtered_alerts_types", TRUE, <<"New Device">>),
      Item("filtered_alerts_types", TRUE, <<"IT">>),
      Item("filtered_alerts_types", TRUE, <<"True">>),
      Item("filtered_alerts_types", FALSE, <<"1">>),
      Item("filtered_alerts_types", TRUE, <<"nan">>),
      Item("alert_is_vip_only", FALSE, <<"True">>),
      Item("alert_is_vip_only", TRUE, <<"IT">>),
      Item("field_without_default", TRUE, <<"IT">>),
      Item("bogus", FALSE, <<"1">>),
      BadItem }

\* The longest command line (number of -o / -r / -a options).
MaxArgs == 2

Modes == {"override", "remove", "append"}

Args == [flag : Modes, item : Items]

CommandLines == UNION { [1..n -> Args] : n \in 0..MaxArgs }

\* _cast_value on tokens: digits give an int, what float() reads a float,
\* "true"/"false" in any case a bool, anything else the text.  A token is
\* one string here, so the numbers are those listed (the tokens of Items
\* among them); the caster on arbitrary texts is _cast_value below.  The
\* identity of a NaN is given where the item is parsed (ParsedUpdates).
cast_value(tok) ==
    CASE tok \in {"0", "1"} -> IntV(IF tok = "1" THEN 1 ELSE 0)
      [] tok = "2" -> IntV(2)
      [] tok = "10" -> IntV(10)
      [] tok \in {"nan", "inf", "1.5", "0.5"} -> Float(tok, 0)
      [] tok \in {"True", "true"} -> BoolV(TRUE)
      [] tok \in {"False", "false"} -> BoolV(FALSE)
      [] OTHER -> Str(tok)

\* parse_field_value for an item that holds "=": brackets always give a
\* list, a bare value gives the cast scalar.
parse_field_value(item) ==
    [field |-> item.field,
     value |-> IF item.bracket
               THEN ListV([j \in 1..Len(item.toks) |-> cast_value(item.toks[j])])
               ELSE cast_value(item.toks[1])]

\* argparse action="append": options[dest] collects the items given with
\* that option, in the order supplied.
RECURSIVE OptionItems(_, _)
OptionItems(args, mode) ==
    IF args = <<>> THEN <<>>
    ELSE IF Head(args).flag = mode
         THEN <<Head(args).item>> \o OptionItems(Tail(args), mode)
         ELSE OptionItems(Tail(args), mode)

Options(args) == [m \in Modes |-> OptionItems(args, m)]

\* The objects a call of parse_field_value makes are new: the NaNs of value
\* get identities of their own, from base on.
NewObjects(value, base) ==
    IF isinstance_list(value)
    THEN ListV([p \in 1..Len(value.e) |->
                  IF IsNaN(value.e[p]) THEN Float("nan", base + p)
                  ELSE value.e[p]])
    ELSE IF IsNaN(value) THEN Float("nan", base) ELSE value

\* The identities given to the parse of the j-th item of an option.
ObjectBase(mode, j) ==
    100 * (CASE mode = "override" -> 1 [] mode = "remove" -> 2
             [] mode = "append" -> 3)
        + 10 * j

ParsedUpdates(items, mode) ==
    [j \in 1..Len(items) |->
        [field |-> parse_field_value(items[j]).field, mode |-> mode,
         value |-> NewObjects(parse_field_value(items[j]).value,
                              ObjectBase(mode, j))]]

\* A mutation of GroupUpdates: appends processed before removes.
GroupUpdatesAppendBeforeRemove(options) ==
    ParsedUpdates(options["override"], "override")
        \o ParsedUpdates(options["append"], "append")
        \o ParsedUpdates(options["remove"], "remove")

\* The updates list: all overrides, then all removes, then all appends.
GroupUpdates(options) ==
    ParsedUpdates(options["override"], "override")
        \o ParsedUpdates(options["remove"], "remove")
        \o ParsedUpdates(options["append"], "append")

\* parse_field_value raises CommandError for an item without "=".
SyntaxErrorIn(args) == \E j \in 1..Len(args) : ~args[j].item.eq

\* The items of one option that are parsed before one of them raises.
RECURSIVE ParsedBeforeRaise(_)
ParsedBeforeRaise(items) ==
    IF items = <<>> \/ ~Head(items).eq THEN <<>>
    ELSE <<Head(items)>> \o ParsedBeforeRaise(Tail(items))

\* The items that "for mode, items in [...]" has parsed when
\* parse_field_value raises: those of the options taken before the one with
\* the first bad item, and of that option the items before the bad one.
OptionsBeforeRaise(options) ==
    LET o == ParsedBeforeRaise(options["override"])
        r == IF o = options["override"]
             THEN ParsedBeforeRaise(options["remove"]) ELSE <<>>
        a == IF o = options["override"] /\ r = options["remove"]
             THEN ParsedBeforeRaise(options["append"]) ELSE <<>>
    IN  [m \in Modes |->
            CASE m = "override" -> o [] m = "remove" -> r [] m = "append" -> a]

(***************************************************************************)
(* The body of the update loop.                                            *)
(***************************************************************************)
\* if is_list and not isinstance(value, list): value = [value]
Normalize(is_list, value) ==
    IF is_list /\ ~isinstance_list(value) THEN ListV(<<value>>) ELSE value

\* A mutation of ValidatorsPass: the validators are not consulted.
ValidatorsPassAlways(field_obj, value) == TRUE

\* No validator of the field raises ValidationError on value.
ValidatorsPass(field_obj, value) ==
    \A j \in 1..Len(field_obj.validators) :
        RunValidator(field_obj.validators[j], value)

\* The validators called for value: all of them up to the first that raises.
ValidatorsCalled(field_obj, value) ==
    LET vs == field_obj.validators
        firstBad == { j \in 1..Len(vs) :
                        /\ ~RunValidator(vs[j], value)
                        /\ \A h \in 1..(j - 1) : RunValidator(vs[h], value) }
        last == IF firstBad = {} THEN Len(vs) ELSE CHOOSE j \in firstBad : TRUE
    IN  SubSeq(vs, 1, last)

\* [v for v in value if v not in current], for value and current given as
\* sequences.
RECURSIVE NewValues(_, _)
NewValues(value, current) ==
    IF value = <<>> THEN <<>>
    ELSE IF ~PyIn(Head(value), current)
         THEN <<Head(value)>> \o NewValues(Tail(value), current)
         ELSE NewValues(Tail(value), current)

\* current += new_values
AppendValues(current, value) == current \o NewValues(value, current)

\* A mutation of RemoveValues: only the first matching element is dropped.
RECURSIVE RemoveValuesFirstMatch(_, _)
RemoveValuesFirstMatch(current, value) ==
    IF current = <<>> THEN <<>>
    ELSE IF PyIn(Head(current), value)
         THEN Tail(current)
         ELSE <<Head(current)>> \o RemoveValuesFirstMatch(Tail(current), value)

\* [item for item in current if item not in value]
RECURSIVE RemoveValues(_, _)
RemoveValues(current, value) ==
    IF current = <<>> THEN <<>>
    ELSE IF ~PyIn(Head(current), value)
         THEN <<Head(current)>> \o RemoveValues(Tail(current), value)
         ELSE RemoveValues(Tail(current), value)

\* current = current or []
CurrentOrEmpty(current) == IF Truthy(current) THEN current.e ELSE <<>>

\* "Apply changes" for an ArrayField.
ApplyList(current, mode, value) ==
    CASE mode = "append" -> ListV(AppendValues(CurrentOrEmpty(current), value.e))
      [] mode = "override" -> value
      [] mode = "remove" -> ListV(RemoveValues(CurrentOrEmpty(current), value.e))

\* One pass of "for field, mode, value in updates" on the in-memory record:
\* err is "" when setattr was reached, and names the CommandError otherwise.
LoopBody(cfg, u) ==
    IF u.field \notin FieldNames
    THEN [err |-> "unknown_field", calls |-> <<>>, value |-> None, new |-> None]
    ELSE LET field_obj == fields_info[u.field]
             current == cfg[u.field]
             value == Normalize(field_obj.is_list, u.value)
             calls == ValidatorsCalled(field_obj, value)
         IN  IF ~ValidatorsPass(field_obj, value)
             THEN [err |-> "validation", calls |-> calls, value |-> value,
                   new |-> None]
             ELSE IF field_obj.is_list
             THEN [err |-> "", calls |-> calls, value |-> value,
                   new |-> ApplyList(current, u.mode, value)]
             ELSE IF u.mode # "override"
             THEN [err |-> "not_list", calls |-> calls, value |-> value,
                   new |-> None]
             ELSE [err |-> "", calls |-> calls, value |-> value, new |-> value]

\* A mutation of InvalidValues: the vocabulary is not checked.
InvalidValuesUnchecked(cfg) == <<>>

\* [val for val in config.filtered_alerts_types if val not in valid_choices],
\* computed only when the field is truthy.
InvalidValues(cfg) ==
    IF Truthy(cfg["filtered_alerts_types"])
    THEN RemoveValues(cfg["filtered_alerts_types"].e, valid_choices)
    ELSE <<>>

(***************************************************************************)
(* The --set-default-values path.                                          *)
(***************************************************************************)
\* A mutation of IsEmptyEquivalent: "not current_value" (0 and False count).
IsEmptyEquivalentFalsy(current_value) == ~Truthy(current_value)

\* current_value in (None, "", [], {})
IsEmptyEquivalent(current_value) ==
    \/ PyEq(current_value, None)
    \/ PyEq(current_value, Str(""))
    \/ PyEq(current_value, ListV(<<>>))
    \/ PyEq(current_value, EmptyDict)

\* field_model.default() if callable(field_model.default) else
\* field_model.default.  A field declared without a default holds the class
\* NOT_PROVIDED there, which is callable and gives an instance of itself.
DefaultValue(field_model) == field_model.default

\* hasattr(field_model, "default"): every django Field has the attribute.
HasDefaultAttr(field_model) == TRUE

\* The fields the loop sets, in order (updated_fields).
UpdatedFields(cfg, force) ==
    SelectSeq(FieldOrder,
              LAMBDA f : /\ HasDefaultAttr(fields_info[f])
                         /\ (force \/ IsEmptyEquivalent(cfg[f])))

\* The record after the loop over fields_info.items().
FillDefaults(cfg, force) ==
    [f \in FieldNames |->
        IF HasDefaultAttr(fields_info[f]) /\ (force \/ IsEmptyEquivalent(cfg[f]))
        THEN DefaultValue(fields_info[f])
        ELSE cfg[f]]

(***************************************************************************)
(* State.                                                                  *)
(*   db        the record held by the Config store (row id=1)              *)
(*   config    the in-memory Config object of the running command          *)
(*   argv      the -o / -r / -a options of the command line, in order      *)
(*   updates   the updates list of handle                                  *)
(*   i         the position of the update loop in updates                  *)
(*   pc        "idle", "apply", "done" (returned) or "aborted" (raised)    *)
(*   err       the CommandError raised, "" when none                       *)
(*   History, read by the properties only:                                 *)
(*   loaded    the record as get_or_create returned it                     *)
(*   saves     the number of config.save() calls                           *)
(*   validated the validator calls made: update index, field, argument     *)
(*   applied   the setattr calls made: update index, field, mode,          *)
(*             normalized value, value before and value after              *)
(*   fill      the --set-default-values run: "" (none), "safe", "force"    *)
(*   count     len(updated_fields) as reported                             *)
(*   The expression parser called on its own:                              *)
(*   raw       the text given (the inside of the brackets, a bare value,   *)
(*             or a token)                                                 *)
(*   result    the call made on it and what it returned                    *)
(***************************************************************************)
VARIABLES db, config, argv, updates, i, pc, err,
          loaded, saves, validated, applied, fill, count, raw, result

vars == <<db, config, argv, updates, i, pc, err,
          loaded, saves, validated, applied, fill, count, raw, result>>

NoResult ==
    [op |-> "none", item |-> <<>>, err |-> FALSE, field |-> <<>>,
     value |-> None]

Rec(ac, fat, vip, fwd) ==
    [allowed_countries |-> ac, filtered_alerts_types |-> fat,
     alert_is_vip_only |-> vip, field_without_default |-> fwd]

\* Records the store may hold when the command starts: the row as
\* get_or_create makes it, a row left by earlier overrides, a row with null
\* and empty columns, and a row whose filtered_alerts_types and
\* field_without_default were written by another writer of the store.
InitialRecords ==
    { Rec(ListV(<<>>), ListV(<<>>), BoolV(FALSE), None),
      Rec(ListV(<<Str("IT")>>), ListV(<<Str("New Device")>>), BoolV(TRUE),
          Str("note")),
      Rec(ListV(<<Str("IT"), Str("FR")>>), None, None, Str("")),
      Rec(ListV(<<Str("FR")>>), ListV(<<Str("New Device"), Str("Old Type")>>),
          BoolV(TRUE), EmptyDict) }

Init ==
    /\ db \in InitialRecords
    /\ config = db
    /\ argv = <<>>
    /\ updates = <<>>
    /\ i = 1
    /\ pc = "idle"
    /\ err = ""
    /\ loaded = db
    /\ saves = 0
    /\ validated = <<>>
    /\ applied = <<>>
    /\ fill = ""
    /\ count = 0
    /\ raw = <<>>
    /\ result = NoResult

\* handle, manual mode, up to the update loop: get_or_create, then every
\* item is parsed and grouped by mode; an item without "=" raises, and
\* updates then holds the items parsed before it.
StartWith(args) ==
    /\ argv' = args
    /\ config' = db
    /\ loaded' = db
    /\ IF SyntaxErrorIn(args)
       THEN /\ pc' = "aborted"
            /\ err' = "syntax"
            /\ updates' = GroupUpdates(OptionsBeforeRaise(Options(args)))
       ELSE /\ pc' = "apply"
            /\ err' = ""
            /\ updates' = GroupUpdates(Options(args))
    /\ UNCHANGED <<db, i, saves, validated, applied, fill, count, raw, result>>

Start ==
    /\ pc = "idle"
    /\ \E args \in CommandLines : StartWith(args)

\* The index of the update whose value is the very list object that the
\* record holds in field after the first k passes, 0 when it holds another
\* object.  An override puts the tuple's own value on the record ("current =
\* value") unless the value was wrapped by the normalisation; a remove builds
\* a new list; an append keeps the object it read when that is truthy
\* ("current += new_values") and starts a new list otherwise.
RECURSIVE SharedValue(_, _, _)
SharedValue(upds, field, k) ==
    IF k = 0 THEN 0
    ELSE LET u == upds[k]
             before == SharedValue(upds, field, k - 1)
         IN  IF u.field # field THEN before
             ELSE IF u.mode = "override"
             THEN (IF Normalize(fields_info[field].is_list, u.value) = u.value
                   THEN k ELSE 0)
             ELSE IF u.mode = "remove" THEN 0
             ELSE IF before # 0 /\ Truthy(upds[before].value) THEN before
             ELSE 0

\* The updates list after a pass of the loop that reached setattr: an append
\* that extends in place a list held by an earlier tuple changes that tuple.
UpdatesAfter(upds, k, new) ==
    LET u == upds[k]
        shared == SharedValue(upds, u.field, k - 1)
    IN  IF /\ u.mode = "append"
           /\ fields_info[u.field].is_list
           /\ shared # 0
           /\ Truthy(upds[shared].value)
        THEN [upds EXCEPT ![shared].value = new]
        ELSE upds

\* One iteration of the update loop.  onUnknown is what an unknown field
\* leads to: "abort" in the code.  setattr changes the in-memory object
\* only, never the store.
ApplyStepWith(onUnknown) ==
    /\ pc = "apply"
    /\ i <= Len(updates)
    /\ LET u == updates[i]
           r == LoopBody(config, u)
       IN  IF r.err = "unknown_field" /\ onUnknown = "skip"
           THEN /\ i' = i + 1
                /\ UNCHANGED <<config, db, pc, err, validated, applied, updates>>
           ELSE
           /\ validated' = validated \o
                 [j \in 1..Len(r.calls) |->
                     [idx |-> i, field |-> u.field, validator |-> r.calls[j],
                      arg |-> r.value]]
           /\ IF r.err # ""
              THEN /\ pc' = "aborted"
                   /\ err' = r.err
                   /\ UNCHANGED <<config, db, i, applied, updates>>
              ELSE /\ config' = [config EXCEPT ![u.field] = r.new]
                   /\ updates' = UpdatesAfter(updates, i, r.new)
                   /\ applied' = Append(applied,
                         [idx |-> i, field |-> u.field, mode |-> u.mode,
                          value |-> r.value, before |-> config[u.field],
                          after |-> r.new])
                   /\ i' = i + 1
                   /\ UNCHANGED <<db, pc, err>>
    /\ UNCHANGED <<argv, loaded, saves, fill, count, raw, result>>

\* A mutation of ApplyStep: an unknown field is passed over.
ApplyStepSkipUnknown == ApplyStepWith("skip")

ApplyStep == ApplyStepWith("abort")

\* A mutation of Finish: the record is saved before the vocabulary check.
FinishSaveFirst ==
    /\ pc = "apply"
    /\ i > Len(updates)
    /\ db' = config
    /\ saves' = saves + 1
    /\ IF InvalidValues(config) # <<>>
       THEN pc' = "aborted" /\ err' = "invalid_choice"
       ELSE pc' = "done" /\ UNCHANGED err
    /\ UNCHANGED <<config, argv, updates, i, loaded, validated, applied, fill,
                   count, raw, result>>

\* After the loop: the filtered_alerts_types check, then config.save().
Finish ==
    /\ pc = "apply"
    /\ i > Len(updates)
    /\ IF InvalidValues(config) # <<>>
       THEN /\ pc' = "aborted"
            /\ err' = "invalid_choice"
            /\ UNCHANGED <<db, saves>>
       ELSE /\ pc' = "done"
            /\ db' = config
            /\ saves' = saves + 1
            /\ UNCHANGED err
    /\ UNCHANGED <<config, argv, updates, i, loaded, validated, applied, fill,
                   count, raw, result>>

\* handle with --set-default-values (and --force when force).
SetDefaultValues(force) ==
    /\ pc = "idle"
    /\ loaded' = db
    /\ config' = FillDefaults(db, force)
    /\ count' = Len(UpdatedFields(db, force))
    /\ db' = config'
    /\ saves' = saves + 1
    /\ fill' = IF force THEN "force" ELSE "safe"
    /\ pc' = "done"
    /\ UNCHANGED <<argv, updates, i, err, validated, applied, raw, result>>

Next ==
    \/ Start
    \/ ApplyStep
    \/ Finish
    \/ \E force \in BOOLEAN : SetDefaultValues(force)

Spec == Init /\ [][Next]_vars

(***************************************************************************)
(* The expression parser on text.  A text is a sequence of one-character   *)
(* strings; the text of a str value (field t) is such a sequence here.     *)
(***************************************************************************)
Whitespace == {" "}

DoubleQuote == {"\""}

SingleQuote == {"'"}

DecimalDigits == {"0", "1", "2", "3", "4", "5", "6", "7", "8", "9"}

DigitValue(c) ==
    CASE c = "0" -> 0 [] c = "1" -> 1 [] c = "2" -> 2 [] c = "3" -> 3
      [] c = "4" -> 4 [] c = "5" -> 5 [] c = "6" -> 6 [] c = "7" -> 7
      [] c = "8" -> 8 [] c = "9" -> 9

\* str.lstrip(chars)
RECURSIVE LStrip(_, _)
LStrip(s, chars) ==
    IF s # <<>> /\ Head(s) \in chars THEN LStrip(Tail(s), chars) ELSE s

\* str.rstrip(chars)
RECURSIVE RStrip(_, _)
RStrip(s, chars) ==
    IF s # <<>> /\ s[Len(s)] \in chars
    THEN RStrip(SubSeq(s, 1, Len(s) - 1), chars)
    ELSE s

\* str.strip(chars): every leading and every trailing character of chars.
Strip(s, chars) == RStrip(LStrip(s, chars), chars)

\* str.isdigit()
IsDigit(s) == s # <<>> /\ \A j \in 1..Len(s) : s[j] \in DecimalDigits

\* int(val) for a text of decimal digits.
RECURSIVE IntOf(_)
IntOf(s) ==
    IF s = <<>> THEN 0
    ELSE 10 * IntOf(SubSeq(s, 1, Len(s) - 1)) + DigitValue(s[Len(s)])

\* str.lower() on the letters that spell true, false, inf and nan.
LowerChar(c) ==
    CASE c = "T" -> "t" [] c = "R" -> "r" [] c = "U" -> "u" [] c = "E" -> "e"
      [] c = "F" -> "f" [] c = "A" -> "a" [] c = "L" -> "l" [] c = "S" -> "s"
      [] c = "I" -> "i" [] c = "N" -> "n" [] OTHER -> c

Lower(s) == [j \in 1..Len(s) |-> LowerChar(s[j])]

\* The places where a decimal point splits s into digits "." digits with at
\* least one digit in all.
PointPlaces(s) ==
    { p \in 1..Len(s) :
        /\ s[p] = "."
        /\ \A j \in 1..Len(s) : j # p => s[j] \in DecimalDigits
        /\ Len(s) > 1 }

\* float(val) does not raise ValueError.  float ignores surrounding
\* whitespace and reads digits with a decimal point, digits alone, and the
\* words inf and nan in any case; signs, exponents and underscores do not
\* occur in the texts of the model.
FloatParses(val) ==
    LET s == Strip(val, Whitespace)
    IN  \/ IsDigit(s)
        \/ PointPlaces(s) # {}
        \/ Lower(s) \in {<<"i", "n", "f">>, <<"n", "a", "n">>}

\* The float that float(val) returns, named by its repr: the integer part
\* without leading zeros, a point, the fraction without trailing zeros.
FloatV(val) ==
    LET s == Strip(val, Whitespace)
        p == IF PointPlaces(s) # {} THEN CHOOSE q \in PointPlaces(s) : TRUE
             ELSE Len(s) + 1
        whole == LStrip(SubSeq(s, 1, p - 1), {"0"})
        frac == RStrip(SubSeq(s, p + 1, Len(s)), {"0"})
        repr == IF Lower(s) \in {<<"i", "n", "f">>, <<"n", "a", "n">>}
                THEN Lower(s)
                ELSE (IF whole = <<>> THEN <<"0">> ELSE whole) \o <<".">>
                        \o (IF frac = <<>> THEN <<"0">> ELSE frac)
    IN  [k |-> "float", t |-> repr, n |-> 0, e |-> <<>>]

\* val.strip().strip('"').strip("'")
StripQuotes(val) ==
    Strip(Strip(Strip(val, Whitespace), DoubleQuote), SingleQuote)

\* _cast_value after its first line: int, float, bool, or the text.
CastRules(val) ==
    IF IsDigit(val) THEN IntV(IntOf(val))
    ELSE IF FloatParses(val) THEN FloatV(val)
    ELSE IF Lower(val) = <<"t", "r", "u", "e">> THEN BoolV(TRUE)
    ELSE IF Lower(val) = <<"f", "a", "l", "s", "e">> THEN BoolV(FALSE)
    ELSE Str(val)

_cast_value(val) == CastRules(StripQuotes(val))

\* The quote-aware scan of parse_field_value: parsed_values after the loop
\* over rest, and after "Don't forget the last value".  quote_char is ""
\* for None; in_quotes is quote_char # "".
RECURSIVE ScanQuoted(_, _, _, _)
ScanQuoted(rest, current, quote_char, parsed_values) ==
    IF rest = <<>>
    THEN IF Strip(current, Whitespace) # <<>>
         THEN Append(parsed_values, Strip(current, Whitespace))
         ELSE parsed_values
    ELSE LET char == Head(rest)
             in_quotes == quote_char # ""
         IN  IF char \in {"\"", "'"} /\ (~in_quotes \/ char = quote_char)
             THEN ScanQuoted(Tail(rest), Append(current, char),
                             IF in_quotes THEN "" ELSE char, parsed_values)
             ELSE IF char = "," /\ ~in_quotes
             THEN ScanQuoted(Tail(rest), <<>>, quote_char,
                             IF Strip(current, Whitespace) # <<>>
                             THEN Append(parsed_values,
                                         Strip(current, Whitespace))
                             ELSE parsed_values)
             ELSE ScanQuoted(Tail(rest), Append(current, char), quote_char,
                             parsed_values)

\* inner.split(",")
RECURSIVE SplitComma(_, _)
SplitComma(rest, current) ==
    IF rest = <<>> THEN <<current>>
    ELSE IF Head(rest) = ","
         THEN <<current>> \o SplitComma(Tail(rest), <<>>)
         ELSE SplitComma(Tail(rest), Append(current, Head(rest)))

\* [v for v in pieces if v.strip()], each v stripped.
RECURSIVE NonEmptyStripped(_)
NonEmptyStripped(pieces) ==
    IF pieces = <<>> THEN <<>>
    ELSE IF Strip(Head(pieces), Whitespace) # <<>>
         THEN <<Strip(Head(pieces), Whitespace)>>
                 \o NonEmptyStripped(Tail(pieces))
         ELSE NonEmptyStripped(Tail(pieces))

\* A mutation of ListTokens: the interior is always split at every comma.
ListTokensNaive(inner) == NonEmptyStripped(SplitComma(inner, <<>>))

\* The tokens of a non-empty interior: the quote-aware scan when the
\* interior holds a quote character, the plain split otherwise.
ListTokens(inner) ==
    IF \E j \in 1..Len(inner) : inner[j] \in {"'", "\""}
    THEN NonEmptyStripped(ScanQuoted(inner, <<>>, "", <<>>))
    ELSE NonEmptyStripped(SplitComma(inner, <<>>))

\* The list parse_field_value returns for the text between the brackets.
ParseList(inner) ==
    IF inner = <<>> THEN <<>>
    ELSE [j \in 1..Len(ListTokens(inner)) |-> _cast_value(ListTokens(inner)[j])]

\* parse_field_value on the text of an item: err when the item holds no
\* "=", else the stripped field name and the parsed value.
parse_field_value_text(item) ==
    IF \A j \in 1..Len(item) : item[j] # "="
    THEN [err |-> TRUE, field |-> <<>>, value |-> None]
    ELSE LET p == CHOOSE q \in 1..Len(item) :
                     item[q] = "=" /\ \A h \in 1..(q - 1) : item[h] # "="
             field == SubSeq(item, 1, p - 1)
             value == Strip(SubSeq(item, p + 1, Len(item)), Whitespace)
         IN  IF value # <<>> /\ Head(value) = "[" /\ value[Len(value)] = "]"
             THEN [err |-> FALSE, field |-> Strip(field, Whitespace),
                   value |-> ListV(ParseList(
                       Strip(SubSeq(value, 2, Len(value) - 1), Whitespace)))]
             ELSE [err |-> FALSE, field |-> Strip(field, Whitespace),
                   value |-> _cast_value(value)]

(***************************************************************************)
(* The parser and the caster called on texts.                              *)
(***************************************************************************)
\* The characters the texts are made of.
TextAlphabet == {"a", "1", ",", "'", "\"", " "}

\* The longest text made of TextAlphabet.
MaxText == 5

\* Texts given besides: the examples of the documentation, words the
\* caster reads as bool or float, numbers with a point or leading zeros.
GivenTexts ==
    { <<"'", "a", " ", "b", "'", ",", "'", "c", "'">>,
      <<"1", ",", "2", ",", "3">>,
      <<"'", "v", "a", "l", " ", "1", "'", ",", "'", "v", "a", "l", " ", "2", "'">>,
      <<"t", "r", "u", "e">>,
      <<"T", "r", "u", "e">>,
      <<"'", "F", "A", "L", "S", "E", "'">>,
      <<"\"", "'", "t", "r", "u", "e", "'", "\"">>,
      <<"'", "\"", "t", "r", "u", "e", "\"", "'">>,
      <<"n", "a", "n">>,
      <<"1", ".", "5", "0">>,
      <<"'", ".", "5", "'">>,
      <<"0", "0", "7">> }

Texts == UNION { [1..n -> TextAlphabet] : n \in 0..MaxText } \cup GivenTexts

InitParse ==
    /\ db = Rec(ListV(<<>>), ListV(<<>>), BoolV(FALSE), None)
    /\ config = db
    /\ argv = <<>>
    /\ updates = <<>>
    /\ i = 1
    /\ pc = "text"
    /\ err = ""
    /\ loaded = db
    /\ saves = 0
    /\ validated = <<>>
    /\ applied = <<>>
    /\ fill = ""
    /\ count = 0
    /\ raw \in Texts
    /\ result = NoResult

Called(op, item, out) ==
    /\ pc = "text"
    /\ pc' = "parsed"
    /\ result' = [op |-> op, item |-> item, err |-> out.err,
                  field |-> out.field, value |-> out.value]
    /\ UNCHANGED <<db, config, argv, updates, i, err, loaded, saves,
                   validated, applied, fill, count, raw>>

\* parse_field_value("x=[...]"), with or without blanks around the parts.
ParseBracketed ==
    \E pad \in {<<>>, <<" ">>} :
        LET item == <<"x">> \o pad \o <<"=">> \o pad \o <<"[">> \o pad \o raw
                        \o pad \o <<"]">> \o pad
        IN  Called("bracket", item, parse_field_value_text(item))

\* parse_field_value("x=...") for a value that is not wrapped in brackets.
ParseBare ==
    LET item == <<"x", "=">> \o raw
    IN  Called("bare", item, parse_field_value_text(item))

\* parse_field_value on a text without "=".
ParseNoEquals == Called("noeq", raw, parse_field_value_text(raw))

\* _cast_value(raw)
CastValue ==
    Called("cast", raw, [err |-> FALSE, field |-> <<>>,
                         value |-> _cast_value(raw)])

NextParse ==
    \/ ParseBracketed
    \/ ParseBare
    \/ ParseNoEquals
    \/ CastValue

SpecParse == InitParse /\ [][NextParse]_vars

(***************************************************************************)
(* Properties.                                                             *)
(***************************************************************************)
IsList(f) == fields_info[f].is_list

\* The elements of a list value; no elements for None.
Elems(v) == IF v.k = "list" THEN v.e ELSE <<>>

UnknownAt == { j \in 1..Len(updates) : updates[j].field \notin FieldNames }

FirstUnknown == CHOOSE j \in UnknownAt : \A h \in UnknownAt : j <= h

\* C1: when a manual-update invocation aborts (syntax error, unknown field,
\* append/remove on a scalar field, validator failure, element outside the
\* vocabulary), save was never called and the store holds the record that
\* was loaded, whatever was already applied to the in-memory record.
C1_AbortPersistsNothing ==
    pc = "aborted" => (saves = 0 /\ db = loaded)

C1_Witness ==
    /\ pc = "aborted"
    /\ err = "validation"
    /\ applied # <<>>
    /\ config # loaded
    /\ db = loaded

ModeRank(m) ==
    CASE m = "override" -> 1
      [] m = "remove" -> 2
      [] m = "append" -> 3

\* The assignments given with one option, as the command line orders them.
GivenWith(args, m) ==
    LET picked == SelectSeq(args, LAMBDA a : a.flag = m)
    IN  [j \in 1..Len(picked) |-> picked[j].item]

\* The command lines that reorder args.
Reorderings(args) ==
    { [j \in 1..Len(args) |-> args[p[j]]] :
        p \in { q \in [1..Len(args) -> 1..Len(args)] :
                 \A a, b \in 1..Len(args) : q[a] = q[b] => a = b } }

\* The item of the command line that the j-th update was parsed from: the
\* updates of one mode stand together, so it is the item given with that
\* mode at the update's place among them.
SuppliedItem(j) ==
    LET m == updates[j].mode
        others == {h \in 1..(j - 1) : updates[h].mode # m}
    IN  GivenWith(argv, m)[j - Cardinality(others)]

\* The value the j-th update was given on the command line: the parse of
\* its item, as made when the items of its option were parsed.
SuppliedValue(j) ==
    LET m == updates[j].mode
        others == {h \in 1..(j - 1) : updates[h].mode # m}
    IN  ParsedUpdates(GivenWith(argv, m), m)[j - Cardinality(others)].value

\* The update list us is the one being processed: the same fields and
\* modes; the values of the updates not yet reached are those of us, and
\* each update already applied was applied with the value of us, normalized.
\* (The value held by an update already applied may since have been
\* extended in place by a later append to its field.)
ProcessedAs(us) ==
    /\ Len(us) = Len(updates)
    /\ \A j \in 1..Len(updates) :
          /\ us[j].field = updates[j].field
          /\ us[j].mode = updates[j].mode
          /\ j >= i => us[j].value = updates[j].value
    /\ \A k \in 1..Len(applied) :
          /\ applied[k].idx = k
          /\ applied[k].value =
                Normalize(fields_info[applied[k].field].is_list, us[k].value)

\* C2: the updates are processed all overrides first, then all removes,
\* then all appends, each mode in the order supplied; every interleaving of
\* the options that keeps the per-mode order gives the same update list, and
\* so the same final values.
C2_FixedModeOrder ==
    (pc # "idle" /\ fill = "" /\ err # "syntax") =>
        /\ Len(updates) = Len(argv)
        /\ \A a, b \in 1..Len(updates) :
              a < b => ModeRank(updates[a].mode) <= ModeRank(updates[b].mode)
        /\ \A m \in Modes :
              LET mine == SelectSeq(updates, LAMBDA u : u.mode = m)
                  given == GivenWith(argv, m)
              IN  /\ Len(mine) = Len(given)
                  /\ \A j \in 1..Len(mine) :
                        mine[j].field = parse_field_value(given[j]).field
        /\ ProcessedAs([j \in 1..Len(updates) |->
                          [field |-> updates[j].field, mode |-> updates[j].mode,
                           value |-> SuppliedValue(j)]])
        /\ \A other \in Reorderings(argv) :
              (\A m \in Modes : GivenWith(other, m) = GivenWith(argv, m))
                  => ProcessedAs(GroupUpdates(Options(other)))

C2_Witness ==
    /\ pc = "done"
    /\ Len(argv) = 2
    /\ argv[1].flag = "append"
    /\ argv[2].flag = "override"
    /\ argv[1].item.field = argv[2].item.field
    /\ Len(applied) = 2
    /\ applied[1].mode = "override"
    /\ applied[2].mode = "append"
    /\ config[applied[2].field] # applied[1].after

\* C3 as stated: when an assignment of the batch names an unknown field, no
\* validator has been run and no field has been mutated by the batch.
C3_UnknownFieldBeforeAnything ==
    UnknownAt # {} => (validated = <<>> /\ applied = <<>> /\ config = loaded)

\* C3, amended: when an assignment names an unknown field the invocation
\* never saves; it aborts when the loop reaches the first such assignment
\* in processing order, so nothing at or after it is validated or applied,
\* while the assignments before it have been validated and applied to the
\* in-memory record.
C3_UnknownFieldAbortsAtItsTurn ==
    UnknownAt # {} =>
        /\ pc # "done"
        /\ saves = 0
        /\ db = loaded
        /\ i <= FirstUnknown
        /\ \A k \in 1..Len(applied) : applied[k].idx < FirstUnknown
        /\ \A k \in 1..Len(validated) : validated[k].idx < FirstUnknown
        /\ err = "unknown_field" =>
              /\ i = FirstUnknown
              /\ Len(applied) = i - 1
              /\ \A j \in 1..(i - 1) : applied[j].idx = j

C3_Witness ==
    /\ pc = "aborted"
    /\ err = "unknown_field"
    /\ validated # <<>>
    /\ applied # <<>>
    /\ config # loaded

\* C4 as stated: the validators of an assigned field are run against the
\* value the field holds after the assignment is applied.
C4_ValidatedCandidate ==
    \A k \in 1..Len(applied) : \A v \in 1..Len(validated) :
        validated[v].idx = applied[k].idx => validated[v].arg = applied[k].after

\* C4, amended: every validator of the field is run against the entire
\* normalized value the assignment supplies, before the mutation is
\* applied; a commit implies that every assignment's normalized value was
\* accepted by all validators of its field.
C4_ValidatedSuppliedValue ==
    /\ \A v \in 1..Len(validated) :
          LET u == updates[validated[v].idx]
              given == SuppliedValue(validated[v].idx)
          IN  /\ validated[v].field = u.field
              /\ validated[v].arg =
                    IF IsList(u.field) /\ given.k # "list"
                    THEN ListV(<<given>>) ELSE given
    /\ \A k \in 1..Len(applied) :
          LET vs == fields_info[applied[k].field].validators
              mine == SelectSeq(validated, LAMBDA c : c.idx = applied[k].idx)
          IN  /\ Len(mine) = Len(vs)
              /\ \A j \in 1..Len(vs) :
                    /\ mine[j].validator = vs[j]
                    /\ RunValidator(vs[j], mine[j].arg)
    /\ (pc = "done" /\ fill = "") =>
          /\ Len(applied) = Len(updates)
          /\ \A j \in 1..Len(updates) : applied[j].idx = j

C4_Witness ==
    /\ pc = "done"
    /\ \E k \in 1..Len(applied) :
          /\ applied[k].mode = "append"
          /\ applied[k].before.k = "list"
          /\ applied[k].before.e # <<>>
          /\ applied[k].after # applied[k].value
          /\ \E v \in 1..Len(validated) :
                /\ validated[v].idx = applied[k].idx
                /\ validated[v].arg = applied[k].value

\* C5: after any sequence of assignments, an assigned field declared scalar
\* does not hold a list and an assigned field declared list holds a list.
C5_FieldKindKept ==
    \A k \in 1..Len(applied) :
        LET f == applied[k].field
        IN  /\ IsList(f) => config[f].k = "list"
            /\ ~IsList(f) => config[f].k # "list"

\* The elements appended by the k-th applied assignment.
Added(k) ==
    SubSeq(applied[k].after.e, Len(Elems(applied[k].before)) + 1,
           Len(applied[k].after.e))

FirstIndexIn(x, s) ==
    CHOOSE j \in 1..Len(s) : PyEq(x, s[j]) /\ \A h \in 1..(j - 1) : ~PyEq(x, s[h])

\* C6: an append on a list field keeps the current list as a prefix and
\* adds exactly the supplied elements that are not in it, each once, in the
\* order of their first occurrence; it never introduces a duplicate.
C6_AppendAddsEachOnce ==
    \A k \in 1..Len(applied) :
        (applied[k].mode = "append" /\ IsList(applied[k].field)) =>
            LET L == Elems(applied[k].before)
                V == applied[k].value.e
                R == applied[k].after.e
                A == Added(k)
            IN  /\ Len(R) >= Len(L)
                /\ SubSeq(R, 1, Len(L)) = L
                /\ \A j \in 1..Len(A) : PyIn(A[j], V) /\ ~PyIn(A[j], L)
                /\ \A j \in 1..Len(V) : ~PyIn(V[j], L) => PyIn(V[j], A)
                /\ \A a, b \in 1..Len(A) : a # b => ~PyEq(A[a], A[b])
                /\ \A a, b \in 1..Len(A) :
                      a < b => FirstIndexIn(A[a], V) < FirstIndexIn(A[b], V)

\* The identities of the objects of a parse made by a later invocation:
\* identities that no parse of this invocation gives.
LaterInvocation == ObjectBase("append", MaxArgs + 1)

\* C7: append is idempotent: appending the same value again, to the list an
\* append produced, changes nothing, whether the same assignment is given
\* again in a later invocation or stands a second time in the same batch.
C7_AppendIdempotent ==
    \A k \in 1..Len(applied) :
        (applied[k].mode = "append" /\ IsList(applied[k].field)) =>
            /\ ApplyList(applied[k].after, "append",
                         Normalize(TRUE,
                            NewObjects(parse_field_value(
                                SuppliedItem(applied[k].idx)).value,
                                LaterInvocation)))
                  = applied[k].after
            /\ \A h \in 1..(k - 1) :
                  ( /\ applied[h].mode = "append"
                    /\ applied[h].field = applied[k].field
                    /\ SuppliedItem(applied[h].idx) = SuppliedItem(applied[k].idx)
                    /\ applied[h].after = applied[k].before )
                  => applied[k].after = applied[k].before

\* The positions of L whose element equals no element of V.
Kept(L, V) == { j \in 1..Len(L) : \A h \in 1..Len(V) : ~PyEq(L[j], V[h]) }

\* C8: a remove on a list field deletes every occurrence of every element
\* equal to a supplied element and keeps the others in their order; when no
\* supplied element is in the list, the list is unchanged.
C8_RemoveFilters ==
    \A k \in 1..Len(applied) :
        (applied[k].mode = "remove" /\ IsList(applied[k].field)) =>
            LET L == Elems(applied[k].before)
                V == applied[k].value.e
                R == applied[k].after.e
            IN  /\ Len(R) = Cardinality(Kept(L, V))
                /\ \A j \in Kept(L, V) :
                      R[Cardinality({ h \in Kept(L, V) : h <= j })] = L[j]
                /\ (\A h \in 1..Len(V) : ~PyIn(V[h], L)) => R = L

C8_Witness ==
    \E k \in 1..Len(applied) :
        /\ applied[k].mode = "remove"
        /\ Len(applied[k].before.e) = 2
        /\ Len(applied[k].after.e) = 1
        /\ applied[k].after.e[1] = applied[k].before.e[2]

InVocabulary(x) == x \in { valid_choices[j] : j \in 1..Len(valid_choices) }

\* C9: a manual-update invocation that commits saves a record whose
\* filtered_alerts_types holds only elements of the vocabulary; when the
\* field holds an element outside it after the batch, the invocation aborts
\* without saving, whether or not the batch assigned the field.
C9_VocabularyEnforced ==
    /\ (pc = "done" /\ fill = "") =>
          /\ db = config
          /\ \A j \in 1..Len(Elems(db["filtered_alerts_types"])) :
                InVocabulary(db["filtered_alerts_types"].e[j])
    /\ ( /\ fill = ""
         /\ pc \in {"done", "aborted"}
         /\ err \in {"", "invalid_choice"}
         /\ \E j \in 1..Len(Elems(config["filtered_alerts_types"])) :
               ~InVocabulary(config["filtered_alerts_types"].e[j]) )
       => (pc = "aborted" /\ err = "invalid_choice" /\ saves = 0 /\ db = loaded)

C9_Witness ==
    /\ pc = "aborted"
    /\ err = "invalid_choice"
    /\ applied # <<>>
    /\ \A k \in 1..Len(applied) : applied[k].field # "filtered_alerts_types"
    /\ db = loaded

EmptyValues == {None, Str(""), ListV(<<>>), EmptyDict}

\* C10: after --set-default-values every field with a defined default holds
\* its default when --force was given or its prior value was None, "", []
\* or {}, and its prior value otherwise; the reported count is the number
\* of fields set; the record is saved and the run cannot abort.
C10_DefaultFill ==
    fill # "" =>
        /\ pc = "done"
        /\ saves = 1
        /\ db = config
        /\ \A f \in FieldNames :
              fields_info[f].has_default =>
                  config[f] = IF fill = "force" \/ loaded[f] \in EmptyValues
                              THEN fields_info[f].default
                              ELSE loaded[f]
        /\ count = Cardinality({ f \in FieldNames :
                                    fill = "force" \/ loaded[f] \in EmptyValues })

C10_Witness ==
    /\ fill = "safe"
    /\ pc = "done"
    /\ count = 3
    /\ config["allowed_countries"] = loaded["allowed_countries"]
    /\ loaded["allowed_countries"] # fields_info["allowed_countries"].default
    /\ loaded["alert_is_vip_only"] = None
    /\ db["alert_is_vip_only"] = BoolV(FALSE)

(***************************************************************************)
(* The bracketed list value (parse_field_value on "x=[...]").              *)
(***************************************************************************)
QuoteChars == DoubleQuote \cup SingleQuote

\* The interior of the brackets of the call recorded in result.
Interior == Strip(raw, Whitespace)

\* The m-th smallest member of a set of positions.
NthOf(S, m) == CHOOSE p \in S : Cardinality({q \in S : q < p}) = m - 1

\* The pieces of s between the separator positions seps, in order, each
\* trimmed: one more piece than there are separators.
Pieces(s, seps) ==
    LET n == Cardinality(seps)
        lo(m) == IF m = 1 THEN 0 ELSE NthOf(seps, m - 1)
        hi(m) == IF m = n + 1 THEN Len(s) + 1 ELSE NthOf(seps, m)
    IN  [m \in 1..(n + 1) |->
            Strip(SubSeq(s, lo(m) + 1, hi(m) - 1), Whitespace)]

NonEmptyText(t) == t # <<>>

CastsOf(tokens) == [m \in 1..Len(tokens) |-> _cast_value(tokens[m])]

\* The same typed value: the same kind, and then the same content.
SameValue(a, b) == a.k = b.k /\ a = b

\* The same typed values, in the same order.
SameValues(xs, ys) ==
    /\ Len(xs) = Len(ys)
    /\ \A m \in 1..Len(xs) : SameValue(xs[m], ys[m])

\* The position of the quote that closes the quote at a: the next
\* occurrence of the same character, 0 if there is none.
MatchingClose(s, a) ==
    LET later == {b \in (a + 1)..Len(s) : s[b] = s[a]}
    IN  IF later = {} THEN 0 ELSE NthOf(later, 1)

\* The opening quotes of s from position j on that have a matching closing
\* quote; a quote character with no match opens nothing.
RECURSIVE MatchedOpens(_, _)
MatchedOpens(s, j) ==
    IF j > Len(s) THEN {}
    ELSE IF s[j] \in QuoteChars /\ MatchingClose(s, j) # 0
         THEN {j} \cup MatchedOpens(s, MatchingClose(s, j) + 1)
         ELSE MatchedOpens(s, j + 1)

\* The commas of s that do not lie between an opening quote and its
\* matching closing quote.
CommasOutsideMatchedQuotes(s) ==
    {p \in 1..Len(s) :
        /\ s[p] = ","
        /\ \A a \in MatchedOpens(s, 1) : ~(a < p /\ p < MatchingClose(s, a))}

\* The tokens as the sentence gives them: the interior split at those
\* commas, each token trimmed, none for an empty interior.
TokensByMatchedQuotes(s) ==
    IF s = <<>> THEN <<>> ELSE Pieces(s, CommasOutsideMatchedQuotes(s))

\* C11 (as stated): a bracketed value always gives a list, never a scalar,
\* whose elements are the casts of the tokens got by splitting the interior
\* on commas, where a comma between an opening quote and its matching
\* closing quote is not a separator and each token is trimmed.
C11_BracketTokensMatchedQuotes ==
    result.op = "bracket" =>
        /\ ~result.err
        /\ isinstance_list(result.value)
        /\ SameValues(result.value.e, CastsOf(TokensByMatchedQuotes(Interior)))

\* The quote that is open after the first j characters of s ("" for none):
\* a quote character opens when none is open, the same character closes it,
\* the other quote character inside it changes nothing.
RECURSIVE OpenQuoteAfter(_, _)
OpenQuoteAfter(s, j) ==
    IF j = 0 THEN ""
    ELSE LET before == OpenQuoteAfter(s, j - 1)
         IN  IF s[j] \notin QuoteChars THEN before
             ELSE IF before = "" THEN s[j]
             ELSE IF before = s[j] THEN ""
             ELSE before

\* The commas of s met while no quote is open, closed later or not.
CommasOutsideOpenQuote(s) ==
    {p \in 1..Len(s) : s[p] = "," /\ OpenQuoteAfter(s, p - 1) = ""}

\* The interior split at those commas, each token trimmed, the tokens that
\* are empty after trimming left out.
TokensByOpenQuote(s) ==
    SelectSeq(Pieces(s, CommasOutsideOpenQuote(s)), NonEmptyText)

\* C11 (amended): a bracketed value always gives a list, never a scalar,
\* whose elements are, in order, the casts of the tokens got by splitting
\* the interior on the commas met while no quote is open (a quote opens
\* at a quote character and closes at the next occurrence of the same
\* character, if any), each token trimmed and the empty ones dropped.
C11_BracketTokens ==
    result.op = "bracket" =>
        /\ ~result.err
        /\ isinstance_list(result.value)
        /\ SameValues(result.value.e, CastsOf(TokensByOpenQuote(Interior)))

\* The documented example x=['a b','c']: the quoted tokens are kept whole.
C11_Witness ==
    /\ result.op = "bracket"
    /\ raw = <<"'", "v", "a", "l", " ", "1", "'", ",", "'", "v", "a", "l", " ", "2", "'">>
    /\ result.value = ListV(<<Str(<<"v", "a", "l", " ", "1">>),
                              Str(<<"v", "a", "l", " ", "2">>)>>)

\* A comma inside a quoted token is part of the token.
C11_WitnessQuotedComma ==
    /\ result.op = "bracket"
    /\ raw = <<"'", ",", "'", ",", "a">>
    /\ result.value = ListV(<<Str(<<",">>), Str(<<"a">>)>>)

(***************************************************************************)
(* The Value Caster (_cast_value).                                         *)
(***************************************************************************)
\* The text trimmed, then without one pair of surrounding quotes when its
\* first and last characters are the same quote character; any other quote
\* is kept.
StripOneMatchingPair(val) ==
    LET s == Strip(val, Whitespace)
    IN  IF Len(s) >= 2 /\ s[1] \in QuoteChars /\ s[Len(s)] = s[1]
        THEN SubSeq(s, 2, Len(s) - 1)
        ELSE s

\* C12 (as stated): the caster trims whitespace and strips at most one
\* matching pair of surrounding single or double quotes (an unmatched
\* quote, a mismatched pair or a second nested pair is kept in the text),
\* and then applies the integer / float / boolean / string rules to the
\* remaining text.
C12_StripsOneMatchingPair ==
    result.op = "cast" =>
        SameValue(result.value, CastRules(StripOneMatchingPair(raw)))

==============================================================================
